---- MODULE Spec2Model ----
(***************************************************************************)
(* WebUntis notification bot: the change-detection core.                   *)
(*                                                                         *)
(*   src/src/api/entries/row.rs   row resolver (GridEntry accessors)       *)
(*   src/src/extract.rs           lesson projector                         *)
(*   src/src/diff.rs              diff engine                              *)
(*   src/src/main.rs              poll-cycle controller and main loop      *)
(*                                                                         *)
(* Rust values are modelled as follows.  Option<T>: None is << >> and      *)
(* Some(x) is <<x>>.  Result<T>: Ok(v) is [ok |-> TRUE, val |-> v] and     *)
(* Err(e) is [ok |-> FALSE, err |-> e], e the text of the bail!/context.   *)
(* Enums are the strings of their variant names, structs are records with  *)
(* the field names of the source.                                          *)
(***************************************************************************)
EXTENDS Integers, Sequences, FiniteSets, TLC

VARIABLES
    pc,                 \* where main is: "loop" (top of the while loop),
                        \* "fetch" (in iteration, after ensure_login_validity),
                        \* "done" (main has returned); "off" when main is not run
    prev_lessons,       \* App::prev_lessons : Option<Vec<LessonInfo>>
    prev_date,          \* App::prev_date, in days since NaiveDate::default()
    since_login,        \* minutes from App::last_login to the last Instant::now()
    since_session,      \* minutes from the login that made App::untis_client
    sequential_errors,  \* main's counter
    cycle,              \* what the current (pc = "fetch") or the last cycle did
    diff_call,          \* one call of send_potential_diffs: arguments and outcome
    row_call,           \* one call of a row accessor: arguments and outcome
    entry_call,         \* one call of extract_lesson_info: argument and outcome
    day_call,           \* one call of extract_all_lessons: argument and outcome
    fetch_call,         \* one fetch of iteration: the instant, the response, the outcome
    text_call           \* two entries that differ in the whitespace around their
                        \* free texts: their projections and the diff of these

app_vars == << pc, prev_lessons, prev_date, since_login, since_session,
               sequential_errors, cycle >>

call_vars ==
    << diff_call, row_call, entry_call, day_call, fetch_call, text_call >>

vars == << app_vars, call_vars >>

-----------------------------------------------------------------------------
(* Option and Result *)

None == << >>

Some(x) == << x >>

Ok(v) == [ok |-> TRUE, val |-> v]

Err(e) == [ok |-> FALSE, err |-> e]

Idle == [done |-> FALSE, idle |-> TRUE]

-----------------------------------------------------------------------------
(* Status: src/src/untis/entries.rs *)

Status ==
    {"NoData", "NotAllowed", "Regular", "Added", "Changed", "Removed", "Cancelled"}

-----------------------------------------------------------------------------
(* Row resolver: src/src/api/entries/row.rs *)

RowType == {"Subject", "Teacher", "Room", "Info"}

extract_one_first(position_n) ==
    IF Len(position_n) = 0
    THEN Err("Row is empty")
    ELSE Ok(position_n[1])

extract_one(position_n) ==
    CASE Len(position_n) = 0 -> Err("Row is empty")
      [] Len(position_n) = 1 -> Ok(position_n[1])
      [] OTHER               -> Err("Row has n elements (expected exactly one)")

extract_row_with_status_removed_first(row_wrapper) ==
    IF row_wrapper.removed # None
    THEN Ok([row |-> row_wrapper.removed[1], is_removed |-> TRUE])
    ELSE IF row_wrapper.current # None
         THEN Ok([row |-> row_wrapper.current[1], is_removed |-> FALSE])
         ELSE Err("RowWrapper has neither current nor removed Row")

\* The flag of the revision before the fix noted in the source.
extract_row_with_status_unflagged(row_wrapper) ==
    IF row_wrapper.current # None
    THEN Ok([row |-> row_wrapper.current[1], is_removed |-> FALSE])
    ELSE IF row_wrapper.removed # None
         THEN Ok([row |-> row_wrapper.removed[1], is_removed |-> FALSE])
         ELSE Err("RowWrapper has neither current nor removed Row")

\* The pair (&Row, bool) is the record [row, is_removed].
extract_row_with_status(row_wrapper) ==
    IF row_wrapper.current # None
    THEN Ok([row |-> row_wrapper.current[1], is_removed |-> FALSE])
    ELSE IF row_wrapper.removed # None
         THEN Ok([row |-> row_wrapper.removed[1], is_removed |-> TRUE])
         ELSE Err("RowWrapper has neither current nor removed Row")

ensure_not_removed(pair) ==
    IF pair.is_removed THEN Err("Row was removed") ELSE Ok(pair.row)

assert_row_type_of_current(pair, expected_type) ==
    IF ~pair.is_removed /\ pair.row.row_type # expected_type
    THEN Err("Expected row type")
    ELSE Ok(pair)

assert_row_type(pair, expected_type) ==
    IF pair.row.row_type # expected_type
    THEN Err("Expected row type")
    ELSE Ok(pair)

extract_one_with_type(position, expected_type) ==
    LET wrapper == extract_one(position)
    IN  IF ~wrapper.ok THEN wrapper
        ELSE LET pair == extract_row_with_status(wrapper.val)
             IN  IF ~pair.ok THEN pair
                 ELSE assert_row_type(pair.val, expected_type)

\* The body shared by info, subject, teacher and room:
\* `ensure_not_removed(self.x_maybe_removed()?)`.
extract_present_with_type(position, expected_type) ==
    LET pair == extract_one_with_type(position, expected_type)
    IN  IF ~pair.ok THEN pair ELSE ensure_not_removed(pair.val)

\* impl GridEntry
info_maybe_removed(entry) == extract_one_with_type(entry.position1, "Info")

info(entry) == extract_present_with_type(entry.position1, "Info")

subject_maybe_removed(entry) == extract_one_with_type(entry.position1, "Subject")

subject(entry) == extract_present_with_type(entry.position1, "Subject")

teacher_maybe_removed_marked(entry) ==
    LET pair == extract_one_with_type(entry.position2, "Teacher")
    IN  IF pair.ok /\ pair.val.is_removed
        THEN Ok([pair.val EXCEPT !.row.status = "Removed"])
        ELSE pair

teacher_maybe_removed(entry) == extract_one_with_type(entry.position2, "Teacher")

teacher(entry) == extract_present_with_type(entry.position2, "Teacher")

room_maybe_removed(entry) == extract_one_with_type(entry.position3, "Room")

room_tolerant(entry) ==
    LET pair == room_maybe_removed(entry)
    IN  IF ~pair.ok THEN pair ELSE Ok(pair.val.row)

room(entry) == extract_present_with_type(entry.position3, "Room")

-----------------------------------------------------------------------------
(* Lesson projector: src/src/extract.rs *)

\* A String is the sequence of its characters where the code looks into it
\* (the free texts, which are trimmed) and a TLA+ string where it only copies
\* or compares it.
Whitespace == {" ", "\n"}

RECURSIVE TrimStart(_)
TrimStart(s) ==
    IF s # << >> /\ Head(s) \in Whitespace THEN TrimStart(Tail(s)) ELSE s

RECURSIVE TrimEnd(_)
TrimEnd(s) ==
    IF s # << >> /\ s[Len(s)] \in Whitespace
    THEN TrimEnd(SubSeq(s, 1, Len(s) - 1))
    ELSE s

\* str::trim
Trim(s) == TrimEnd(TrimStart(s))

normalize_str_untrimmed(string) ==
    IF Trim(string) = << >> THEN None ELSE Some(string)

\* `let s = string.trim(); if s.is_empty() { None } else { Some(s.to_string()) }`
normalize_str(string) ==
    LET s == Trim(string)
    IN  IF s = << >> THEN None ELSE Some(s)

\* `lesson.texts.iter().map(|x| x.text.clone()).collect()`
TextsOf(texts) == [i \in 1..Len(texts) |-> texts[i].text]

extract_lesson_info(lesson) ==
    IF info(lesson).ok
    THEN Ok(None)
    ELSE LET subject_ == subject(lesson)
             teacher_ == teacher_maybe_removed(lesson)
             room_    == room(lesson)
         IN  IF ~subject_.ok THEN subject_
             ELSE IF ~teacher_.ok THEN teacher_
             ELSE IF ~room_.ok THEN room_
             ELSE Ok(Some(
                 [status            |-> lesson.status,
                  datetime          |-> lesson.duration.start,
                  subject           |-> subject_.val.long_name,
                  subject_status    |-> subject_.val.status,
                  teacher           |-> teacher_.val.row.long_name,
                  teacher_status    |-> teacher_.val.row.status,
                  room              |-> room_.val.long_name,
                  room_status       |-> room_.val.status,
                  lesson_info       |-> normalize_str(lesson.lesson_info),
                  lesson_text       |-> normalize_str(lesson.lesson_text),
                  substitution_text |-> normalize_str(lesson.substitution_text),
                  notes             |-> normalize_str(lesson.notes_all),
                  texts             |-> TextsOf(lesson.texts)]))

-----------------------------------------------------------------------------
(* Diff engine: src/src/diff.rs *)

\* The sink, DiscordClient::lesson_modification, as seen by the caller: the
\* failAt-th call from now fails (its HTTP request fails or is answered with
\* an error status), the calls before it succeed; failAt = 0: none fails.
\* A call is recorded by its title.
StatusTitlesRemovedOnly(old, new) ==
    IF old.status # new.status
    THEN IF new.status = "Removed"
         THEN << "Lesson Cancellation" >>
         ELSE IF new.status = "Changed"
              THEN << "Lesson Change" >>
              ELSE << >>
    ELSE << >>

StatusTitlesAnyChange(old, new) ==
    IF old.status # new.status
    THEN IF new.status \in {"Cancelled", "Removed"}
         THEN << "Lesson Cancellation" >>
         ELSE << "Lesson Change" >>
    ELSE << >>

StatusTitles(old, new) ==
    IF old.status # new.status
    THEN IF new.status \in {"Cancelled", "Removed"}
         THEN << "Lesson Cancellation" >>
         ELSE IF new.status = "Changed"
              THEN << "Lesson Change" >>
              ELSE << >>
    ELSE << >>

SubjectTitles(old, new) ==
    IF old.subject_status # new.subject_status \/ old.subject # new.subject
    THEN << "Subject Changed" >>
    ELSE << >>

TeacherTitlesStatusOnly(old, new) ==
    IF old.teacher_status # new.teacher_status
    THEN << "Teacher Changed" >>
    ELSE << >>

TeacherTitles(old, new) ==
    IF old.teacher_status # new.teacher_status \/ old.teacher # new.teacher
    THEN << "Teacher Changed" >>
    ELSE << >>

RoomTitles(old, new) ==
    IF old.room_status # new.room_status \/ old.room # new.room
    THEN << "Room Changed" >>
    ELSE << >>

NotesTitlesWithoutTexts(old, new) ==
    IF \/ old.lesson_info # new.lesson_info
       \/ old.lesson_text # new.lesson_text
       \/ old.substitution_text # new.substitution_text
       \/ old.notes # new.notes
    THEN << "Notes Changed" >>
    ELSE << >>

NotesTitles(old, new) ==
    IF \/ old.lesson_info # new.lesson_info
       \/ old.lesson_text # new.lesson_text
       \/ old.substitution_text # new.substitution_text
       \/ old.notes # new.notes
       \/ old.texts # new.texts
    THEN << "Notes Changed" >>
    ELSE << >>

DiffTitlesNotesFirst(old, new) ==
    NotesTitles(old, new) \o StatusTitles(old, new) \o SubjectTitles(old, new)
        \o TeacherTitles(old, new) \o RoomTitles(old, new)

\* The calls send_potential_diffs makes when none of them fails, in order.
DiffTitles(old, new) ==
    StatusTitles(old, new) \o SubjectTitles(old, new) \o TeacherTitles(old, new)
        \o RoomTitles(old, new) \o NotesTitles(old, new)

FastPathNever(old, new) == FALSE

\* `if old == new { return Ok(false); }`
FastPath(old, new) == old = new

send_potential_diffs_if_sent(failAt, old, new) ==
    LET titles == IF FastPath(old, new) THEN << >> ELSE DiffTitles(old, new)
    IN  IF failAt \in 1..Len(titles)
        THEN [result |-> Err("sending lesson modification info"),
              calls  |-> SubSeq(titles, 1, failAt)]
        ELSE [result |-> Ok(titles # << >>), calls |-> titles]

\* send_potential_diffs(discord, old, new): result is the Result<bool> it
\* returns, calls the titles handed to discord.lesson_modification (the
\* failing call included: `?` returns at once).
send_potential_diffs(failAt, old, new) ==
    IF FastPath(old, new)
    THEN [result |-> Ok(FALSE), calls |-> << >>]
    ELSE LET titles == DiffTitles(old, new)
         IN  IF failAt \in 1..Len(titles)
             THEN [result |-> Err("sending lesson modification info"),
                   calls  |-> SubSeq(titles, 1, failAt)]
             ELSE [result |-> Ok(TRUE), calls |-> titles]

\* The calls that were delivered: all but a failing last one.
Delivered(out) ==
    IF out.result.ok THEN out.calls ELSE SubSeq(out.calls, 1, Len(out.calls) - 1)

-----------------------------------------------------------------------------
(* Transport: src/src/untis.rs, src/src/untis/entries.rs.  A response is   *)
(* [sent, format, days, errors]: whether the request was sent and answered *)
(* with a success status, and the fields of struct Entries in the body.    *)
(* A Day is [grid_entries]; its date and status are not read.              *)

FORMAT_VERSION == 19

\* UntisClient::get_json for Entries, with FormatVersion::deserialize
get_json(response) ==
    IF ~response.sent
    THEN Err("Could not send GET request")
    ELSE IF response.format # FORMAT_VERSION
         THEN Err("Format Version mismatch")
         ELSE Ok([days |-> response.days, errors |-> response.errors])

fetch_entries(response) ==
    LET entries == get_json(response)
    IN  IF ~entries.ok THEN entries
        ELSE IF entries.val.errors # << >>
             THEN Err("API returned errors")
             ELSE Ok(entries.val.days)

\* The query of fetch_entries(start, end, ..): the range is inclusive.
fetch_entries_query(start, end) ==
    [start |-> start, end |-> end, format |-> FORMAT_VERSION]

\* `self.fetch_entries(date, date, timetable_id)`
fetch_single_entry_query(date) == fetch_entries_query(date, date)

fetch_single_entry_first(response) ==
    LET days == fetch_entries(response)
    IN  IF ~days.ok THEN days
        ELSE IF Len(days.val) >= 1
             THEN Ok(days.val[1])
             ELSE Err("API returned n days instead of just one")

fetch_single_entry(response) ==
    LET days == fetch_entries(response)
    IN  IF ~days.ok THEN days
        ELSE IF Len(days.val) = 1
             THEN Ok(days.val[1])
             ELSE Err("API returned n days instead of just one")

-----------------------------------------------------------------------------
(* Day-level extraction: src/src/extract.rs *)

\* map(extract_lesson_info).filter_map(Result::transpose).collect():
\* the entries in order, the first error ends it.
RECURSIVE CollectLessonsSkipping(_, _)
CollectLessonsSkipping(grid_entries, lessons) ==
    IF grid_entries = << >>
    THEN Ok(lessons)
    ELSE LET item == extract_lesson_info(Head(grid_entries))
         IN  CollectLessonsSkipping(Tail(grid_entries),
                                    IF item.ok THEN lessons \o item.val ELSE lessons)

RECURSIVE CollectLessonsReversed(_, _)
CollectLessonsReversed(grid_entries, lessons) ==
    IF grid_entries = << >>
    THEN Ok(lessons)
    ELSE LET item == extract_lesson_info(Head(grid_entries))
         IN  IF ~item.ok THEN item
             ELSE CollectLessonsReversed(Tail(grid_entries), item.val \o lessons)

RECURSIVE CollectLessons(_, _)
CollectLessons(grid_entries, lessons) ==
    IF grid_entries = << >>
    THEN Ok(lessons)
    ELSE LET item == extract_lesson_info(Head(grid_entries))
         IN  IF ~item.ok THEN item
             ELSE CollectLessons(Tail(grid_entries), lessons \o item.val)

extract_all_lessons(day) == CollectLessons(day.grid_entries, << >>)

-----------------------------------------------------------------------------
(* Poll-cycle controller: src/src/main.rs *)

MAX_LOGIN_TIME == 14

MaxSequentialErrors == 5

RolloverHour == 18

DefaultDate == 0

\* A time is [day, hour], day in days since NaiveDate::default().
\* DateTime<Utc>::with_timezone for a zone that is offset hours ahead of UTC.
with_timezone(utc, offset) ==
    IF utc.hour + offset >= 24
    THEN [day |-> utc.day + 1, hour |-> utc.hour + offset - 24]
    ELSE IF utc.hour + offset < 0
         THEN [day |-> utc.day - 1, hour |-> utc.hour + offset + 24]
         ELSE [day |-> utc.day, hour |-> utc.hour + offset]

get_relevant_date_after(now) ==
    IF now.hour > RolloverHour THEN now.day + 1 ELSE now.day

\* now is a local time.
get_relevant_date(now) ==
    IF now.hour >= RolloverHour THEN now.day + 1 ELSE now.day

\* App::ensure_login_validity, with now - last_login = login_age and the age
\* of untis_client = session_age; login_ok: whether UntisClient::login succeeds.
ensure_login_validity(login_age, session_age, login_ok) ==
    IF login_age < MAX_LOGIN_TIME
    THEN [result |-> Ok(<< >>), relogin |-> "none",
          since_login |-> login_age, since_session |-> session_age]
    ELSE IF login_ok
         THEN [result |-> Ok(<< >>), relogin |-> "ok",
               since_login |-> 0, since_session |-> 0]
         ELSE [result |-> Err("Could not log back into Untis"), relogin |-> "failed",
               since_login |-> 0, since_session |-> session_age]

\* The for loop of App::iteration over zip(prev_lessons, &lessons), from pair
\* i on: failAt counts the calls of the sink within the cycle; a call is
\* [pair, title].
RECURSIVE DiffPairsForgetting(_, _, _, _, _, _)
DiffPairsForgetting(i, old_lessons, new_lessons, failAt, calls, needs_reset) ==
    IF i > Len(old_lessons) \/ i > Len(new_lessons)
    THEN [result |-> Ok(needs_reset), calls |-> calls]
    ELSE LET out  == send_potential_diffs(0, old_lessons[i], new_lessons[i])
             made == calls \o [k \in 1..Len(out.calls) |->
                                 [pair |-> i, title |-> out.calls[k]]]
         IN  DiffPairsForgetting(i + 1, old_lessons, new_lessons, failAt, made,
                                 needs_reset \/ out.result.val)

RECURSIVE DiffPairs(_, _, _, _, _, _)
DiffPairs(i, old_lessons, new_lessons, failAt, calls, needs_reset) ==
    IF i > Len(old_lessons) \/ i > Len(new_lessons)
    THEN [result |-> Ok(needs_reset), calls |-> calls]
    ELSE LET out  == send_potential_diffs(
                        IF failAt > Len(calls) THEN failAt - Len(calls) ELSE 0,
                        old_lessons[i], new_lessons[i])
             made == calls \o [k \in 1..Len(out.calls) |->
                                 [pair |-> i, title |-> out.calls[k]]]
         IN  IF ~out.result.ok
             THEN [result |-> out.result, calls |-> made]
             ELSE DiffPairs(i + 1, old_lessons, new_lessons, failAt, made,
                            needs_reset \/ out.result.val)

\* The branches of App::iteration from `let Some(prev_lessons) = ...` on.
\* Each gives the new values of prev_lessons and prev_date, the Result that
\* iteration returns, the calls of the sink and whether it slept.

adopt_undated(lessons_before, date_before, date, lessons) ==
    [prev_lessons |-> Some(lessons), prev_date |-> date_before, result |-> Ok(<< >>),
     branch |-> "adopt", calls |-> << >>, slept |-> FALSE]

\* `let Some(prev_lessons) = &self.prev_lessons else { ... }`
adopt(lessons_before, date_before, date, lessons) ==
    [prev_lessons |-> Some(lessons), prev_date |-> date, result |-> Ok(<< >>),
     branch |-> "adopt", calls |-> << >>, slept |-> FALSE]

another_day_redated(lessons_before, date_before, date, lessons) ==
    [prev_lessons |-> lessons_before, prev_date |-> date, result |-> Ok(<< >>),
     branch |-> "another day", calls |-> << >>, slept |-> FALSE]

another_day_adopts(lessons_before, date_before, date, lessons) ==
    [prev_lessons |-> Some(lessons), prev_date |-> date, result |-> Ok(<< >>),
     branch |-> "another day", calls |-> << >>, slept |-> FALSE]

\* `if self.prev_date != date { ... }`
another_day(lessons_before, date_before, date, lessons) ==
    [prev_lessons |-> None, prev_date |-> date_before, result |-> Ok(<< >>),
     branch |-> "another day", calls |-> << >>, slept |-> FALSE]

diff_day_unreset(lessons_before, date_before, lessons, failAt) ==
    LET diffs == DiffPairs(1, lessons_before[1], lessons, failAt, << >>, FALSE)
    IN  [prev_lessons |-> lessons_before, prev_date |-> date_before,
         result |-> IF diffs.result.ok THEN Ok(<< >>) ELSE diffs.result,
         branch |-> "compare", calls |-> diffs.calls, slept |-> diffs.result.ok]

\* The for loop, `if needs_reset { ... }` and the sleep.
diff_day(lessons_before, date_before, lessons, failAt) ==
    LET diffs == DiffPairs(1, lessons_before[1], lessons, failAt, << >>, FALSE)
    IN  IF ~diffs.result.ok
        THEN [prev_lessons |-> lessons_before, prev_date |-> date_before,
              result |-> diffs.result,
              branch |-> "compare", calls |-> diffs.calls, slept |-> FALSE]
        ELSE [prev_lessons |-> IF diffs.result.val THEN None ELSE lessons_before,
              prev_date |-> date_before, result |-> Ok(<< >>),
              branch |-> "compare", calls |-> diffs.calls, slept |-> TRUE]

same_day_discarding(lessons_before, date_before, lessons, failAt) ==
    IF Len(lessons_before[1]) # Len(lessons)
    THEN [prev_lessons |-> None, prev_date |-> date_before,
          result |-> Err("Previous and current 'day' have a different number of lessons"),
          branch |-> "compare", calls |-> << >>, slept |-> FALSE]
    ELSE diff_day(lessons_before, date_before, lessons, failAt)

same_day_adopting(lessons_before, date_before, lessons, failAt) ==
    IF Len(lessons_before[1]) # Len(lessons)
    THEN [prev_lessons |-> Some(lessons), prev_date |-> date_before,
          result |-> Err("Previous and current 'day' have a different number of lessons"),
          branch |-> "compare", calls |-> << >>, slept |-> FALSE]
    ELSE diff_day(lessons_before, date_before, lessons, failAt)

same_day_unchecked(lessons_before, date_before, lessons, failAt) ==
    diff_day(lessons_before, date_before, lessons, failAt)

\* `if prev_lessons.len() != lessons.len() { bail!(...) }`, then the rest.
same_day(lessons_before, date_before, lessons, failAt) ==
    IF Len(lessons_before[1]) # Len(lessons)
    THEN [prev_lessons |-> lessons_before, prev_date |-> date_before,
          result |-> Err("Previous and current 'day' have a different number of lessons"),
          branch |-> "compare", calls |-> << >>, slept |-> FALSE]
    ELSE diff_day(lessons_before, date_before, lessons, failAt)

compare(lessons_before, date_before, date, lessons, failAt) ==
    IF lessons_before = None
    THEN adopt(lessons_before, date_before, date, lessons)
    ELSE IF date_before # date
         THEN another_day(lessons_before, date_before, date, lessons)
         ELSE same_day(lessons_before, date_before, lessons, failAt)

\* `let day = self.untis_client.fetch_single_entry(date, ...)?;
\*  let lessons = extract_all_lessons(&day)?;`
fetch_lessons(response) ==
    LET day == fetch_single_entry(response)
    IN  IF ~day.ok
        THEN [result |-> day, branch |-> "fetch"]
        ELSE [result |-> extract_all_lessons(day.val), branch |-> "extract"]

\* App::iteration after ensure_login_validity; fetched is what fetch_lessons
\* makes of the backend's response.
iteration(lessons_before, date_before, now, fetched, failAt) ==
    LET date == get_relevant_date(now)
    IN  IF ~fetched.result.ok
        THEN [prev_lessons |-> lessons_before, prev_date |-> date_before,
              result |-> fetched.result, branch |-> fetched.branch,
              date |-> date, lessons |-> None, calls |-> << >>, slept |-> FALSE]
        ELSE compare(lessons_before, date_before, date, fetched.result.val, failAt)
                @@ [date |-> date, lessons |-> Some(fetched.result.val)]

count_errors_fatal_format(result, errors) ==
    IF result.ok THEN 0
    ELSE IF result.err = "Format Version mismatch"
         THEN MaxSequentialErrors
         ELSE errors + 1

count_errors_unreset(result, errors) == IF ~result.ok THEN errors + 1 ELSE errors

\* The body of main's while loop around app.iteration().
count_errors(result, errors) == IF ~result.ok THEN errors + 1 ELSE 0

-----------------------------------------------------------------------------
(* The state of main before its loop. *)

NoCycle ==
    [relogin |-> "none", outcome |-> "none", err |-> "", branch |-> "",
     date |-> DefaultDate, lessons |-> None, calls |-> << >>, errors |-> << >>,
     slept |-> FALSE, last |-> None, failAt |-> 0, sent |-> << >>, failed |-> ""]

\* App::new, and `let mut sequential_errors = 0`
AppNew ==
    /\ pc = "loop"
    /\ prev_lessons = None
    /\ prev_date = DefaultDate
    /\ since_login = 0
    /\ since_session = 0
    /\ sequential_errors = 0
    /\ cycle = NoCycle

AppOff ==
    /\ pc = "off"
    /\ prev_lessons = None
    /\ prev_date = DefaultDate
    /\ since_login = 0
    /\ since_session = 0
    /\ sequential_errors = 0
    /\ cycle = NoCycle

-----------------------------------------------------------------------------
(* LessonInfo values for the diff engine.  Every field takes two values,   *)
(* status all seven; of the five annotation fields either none, exactly    *)
(* one or all five differ from the empty annotation.                       *)

NoAnnotations ==
    [lesson_info |-> None, lesson_text |-> None, substitution_text |-> None,
     notes |-> None, texts |-> << >>]

Annotations ==
    {NoAnnotations,
     [NoAnnotations EXCEPT !.lesson_info = Some(<< "s", "e", "e" >>)],
     [NoAnnotations EXCEPT !.lesson_text = Some(<< "s", "e", "e" >>)],
     [NoAnnotations EXCEPT !.substitution_text = Some(<< "s", "e", "e" >>)],
     [NoAnnotations EXCEPT !.notes = Some(<< "s", "e", "e" >>)],
     [NoAnnotations EXCEPT !.texts = << "bring book" >>],
     [lesson_info |-> Some(<< "s", "e", "e" >>), lesson_text |-> Some(<< "s", "e", "e" >>),
      substitution_text |-> Some(<< "s", "e", "e" >>), notes |-> Some(<< "s", "e", "e" >>),
      texts |-> << "bring book" >>]}

LessonCore ==
    [status         : Status,
     datetime       : {"08:00", "09:45"},
     subject        : {"Math", "Art"},
     subject_status : {"Regular", "Changed"},
     teacher        : {"Smith", "Jones"},
     teacher_status : {"Regular", "Changed"},
     room           : {"101", "102"},
     room_status    : {"Regular", "Changed"}]

\* struct LessonInfo, src/src/lib.rs
MkLessonInfo(c, a) ==
    [status            |-> c.status,
     datetime          |-> c.datetime,
     subject           |-> c.subject,
     subject_status    |-> c.subject_status,
     teacher           |-> c.teacher,
     teacher_status    |-> c.teacher_status,
     room              |-> c.room,
     room_status       |-> c.room_status,
     lesson_info       |-> a.lesson_info,
     lesson_text       |-> a.lesson_text,
     substitution_text |-> a.substitution_text,
     notes             |-> a.notes,
     texts             |-> a.texts]

\* The old lesson of a pair of different lessons: its fields other than
\* status enter the diff only through (in)equality with the new lesson's, so
\* they are held fixed while the new lesson ranges over all values.
OldLesson(s) ==
    MkLessonInfo([status |-> s, datetime |-> "08:00",
                  subject |-> "Math", subject_status |-> "Regular",
                  teacher |-> "Smith", teacher_status |-> "Regular",
                  room |-> "101", room_status |-> "Regular"],
                 NoAnnotations)

\* The most calls one diff makes: one per check.
MaxCalls == 5

DiffInit ==
    /\ \E s \in Status, c \in LessonCore, a \in Annotations :
          \/ diff_call = [old |-> OldLesson(s), new |-> MkLessonInfo(c, a), done |-> FALSE]
          \/ diff_call = [old |-> MkLessonInfo(c, a), new |-> MkLessonInfo(c, a), done |-> FALSE]
    /\ row_call = Idle
    /\ entry_call = Idle
    /\ day_call = Idle
    /\ fetch_call = Idle
    /\ text_call = Idle
    /\ AppOff

\* One call of send_potential_diffs, and what a same-date cycle of the
\* controller does whose baseline is << old >> and whose new list is << new >>
\* (after), or whose baseline is << old, new >> and whose new list is
\* << new, old >> (both).
Diff ==
    /\ ~diff_call.done
    /\ \E failAt \in 0..MaxCalls :
          diff_call' = [old    |-> diff_call.old,
                        new    |-> diff_call.new,
                        done   |-> TRUE,
                        failAt |-> failAt,
                        out    |-> send_potential_diffs(failAt, diff_call.old, diff_call.new),
                        after  |-> compare(Some(<< diff_call.old >>), DefaultDate,
                                           DefaultDate, << diff_call.new >>, failAt),
                        both   |-> compare(Some(<< diff_call.old, diff_call.new >>),
                                           DefaultDate, DefaultDate,
                                           << diff_call.new, diff_call.old >>, failAt)]
    /\ UNCHANGED << row_call, entry_call, day_call, fetch_call, text_call,
                    app_vars >>

SpecDiff == DiffInit /\ [][Diff]_vars

-----------------------------------------------------------------------------
(* The row resolver on every position of up to MaxSlots slots.  A slot of  *)
(* a one-slot position holds any of the rows in current, in removed, in    *)
(* both or in neither; the slots of a longer position hold the rows named  *)
(* "A".                                                                    *)

MaxSlots == 2

OptionOf(S) == {None} \cup {Some(x) : x \in S}

RowWrapper(rows) == [current : OptionOf(rows), removed : OptionOf(rows)]

SlotRows == [row_type : RowType, status : {"Regular"}, long_name : {"A", "B"}]

ManySlotRows == {r \in SlotRows : r.long_name = "A"}

RowInit ==
    /\ \E n \in 0..MaxSlots, expected_type \in RowType, strict \in BOOLEAN :
          \E position \in [1..n -> IF n <= 1 THEN RowWrapper(SlotRows)
                                            ELSE RowWrapper(ManySlotRows)] :
              row_call = [position |-> position, expected_type |-> expected_type,
                          strict |-> strict, done |-> FALSE]
    /\ diff_call = Idle
    /\ entry_call = Idle
    /\ day_call = Idle
    /\ fetch_call = Idle
    /\ text_call = Idle
    /\ AppOff

\* strict: one of info, subject, teacher, room; otherwise one of the
\* *_maybe_removed accessors.  slot: what the accessor's call of
\* extract_row_with_status returned, if it got that far.
Resolve ==
    /\ ~row_call.done
    /\ row_call' =
          [position      |-> row_call.position,
           expected_type |-> row_call.expected_type,
           strict        |-> row_call.strict,
           done          |-> TRUE,
           slot          |-> LET wrapper == extract_one(row_call.position)
                             IN  IF wrapper.ok
                                 THEN Some(extract_row_with_status(wrapper.val))
                                 ELSE None,
           out           |-> IF row_call.strict
                             THEN extract_present_with_type(row_call.position,
                                                            row_call.expected_type)
                             ELSE extract_one_with_type(row_call.position,
                                                        row_call.expected_type)]
    /\ UNCHANGED << diff_call, entry_call, day_call, fetch_call, text_call,
                    app_vars >>

SpecRow == RowInit /\ [][Resolve]_vars

-----------------------------------------------------------------------------
(* The projector on GridEntry values.  position1 holds Subject, Info or    *)
(* (misplaced) Teacher rows, position2 Teacher or Room rows, position3     *)
(* Room or Info rows, each row Regular or Changed; a slot holds a row in   *)
(* current, in removed, in both or in neither.                             *)

LongNameOf(row_type) ==
    CASE row_type = "Subject" -> "Math"
      [] row_type = "Teacher" -> "Smith"
      [] row_type = "Room"    -> "101"
      [] row_type = "Info"    -> "Assembly"

EntryRows(types) ==
    {[row_type |-> t, status |-> s, long_name |-> LongNameOf(t)] :
        t \in types, s \in {"Regular", "Changed"}}

EntryWrappers(types) ==
    {w \in RowWrapper(EntryRows(types)) :
        (w.current # None /\ w.removed # None) =>
            (w.current[1].status = "Regular" /\ w.removed[1].status = "Changed")}

EntryPositions(types) ==
    UNION {[1..n -> IF n <= 1
                    THEN EntryWrappers(types)
                    ELSE {w \in EntryWrappers(types) :
                            /\ w.removed = None /\ w.current # None
                            /\ w.current[1].status = "Regular"}] :
           n \in 0..MaxSlots}

\* The fields of a GridEntry other than its positions.  entry_type is left
\* out: the projector does not read it.
EntryTexts ==
    {[status |-> "Regular", start |-> "08:00", notes_all |-> << >>,
      lesson_text |-> << >>, lesson_info |-> << >>, substitution_text |-> << >>,
      texts |-> << >>],
     [status |-> "Cancelled", start |-> "09:45", notes_all |-> << "n" >>,
      lesson_text |-> << " ", "t" >>, lesson_info |-> << " " >>,
      substitution_text |-> << "s", "\n" >>,
      texts |-> << [text_type |-> "LessonInfo", text |-> "bring book"] >>]}

\* struct GridEntry, src/src/untis/entries.rs
MkGridEntry(t, p1, p2, p3) ==
    [status            |-> t.status,
     duration          |-> [start |-> t.start],
     notes_all         |-> t.notes_all,
     position1         |-> p1,
     position2         |-> p2,
     position3         |-> p3,
     texts             |-> t.texts,
     lesson_text       |-> t.lesson_text,
     lesson_info       |-> t.lesson_info,
     substitution_text |-> t.substitution_text]

EntryInit ==
    /\ \E t \in EntryTexts,
          p1 \in EntryPositions({"Subject", "Info", "Teacher"}),
          p2 \in EntryPositions({"Teacher", "Room"}),
          p3 \in EntryPositions({"Room", "Info"}) :
          entry_call = [lesson |-> MkGridEntry(t, p1, p2, p3), done |-> FALSE]
    /\ diff_call = Idle
    /\ row_call = Idle
    /\ day_call = Idle
    /\ fetch_call = Idle
    /\ text_call = Idle
    /\ AppOff

Project ==
    /\ ~entry_call.done
    /\ entry_call' = [lesson |-> entry_call.lesson,
                      done   |-> TRUE,
                      out    |-> extract_lesson_info(entry_call.lesson)]
    /\ UNCHANGED << diff_call, row_call, day_call, fetch_call, text_call,
                    app_vars >>

SpecExtract == EntryInit /\ [][Project]_vars

-----------------------------------------------------------------------------
(* The main loop.  One cycle is two steps: Login (iteration up to and      *)
(* including ensure_login_validity) and Poll (the rest of iteration and    *)
(* the bookkeeping of the while loop).  cycle records what the cycle did:  *)
(*   relogin  "none", "ok" or "failed"                                     *)
(*   outcome  "running", "ok" or "err", and err, the error text            *)
(*   branch   "login", "fetch", "extract", "adopt", "another day" or       *)
(*            "compare": where iteration returned                          *)
(*   date, lessons   the date polled and the list projected, if any        *)
(*   calls    the calls of DiscordClient::lesson_modification              *)
(*   errors   the calls of DiscordClient::send_error                       *)
(*   slept    whether the cycle slept                                      *)
(*   failAt   which of its calls of lesson_modification failed, 0 if none  *)
(*   last     while the cycle runs (pc = "fetch"): the date and the list   *)
(*            that the cycle before it polled, if that cycle succeeded     *)
(*   sent     while the cycle runs: the calls that the cycle before it     *)
(*            delivered, each with the new lesson it was made for          *)
(*   failed   while the cycle runs: the error of the cycle before it, ""   *)
(*            if it succeeded                                              *)
(* sent and failed are recorded by LoginTracked only.                      *)

\* What the backend is taken to return.
Current(row) == [current |-> Some(row), removed |-> None]

RegularRow(row_type, long_name) ==
    [row_type |-> row_type, status |-> "Regular", long_name |-> long_name]

PlainTexts(start) ==
    [status |-> "Regular", start |-> start, notes_all |-> << >>,
     lesson_text |-> << >>, lesson_info |-> << >>, substitution_text |-> << >>,
     texts |-> << >>]

LessonEntry(teacher_name, start) ==
    MkGridEntry(PlainTexts(start),
                << Current(RegularRow("Subject", "Math")) >>,
                << Current(RegularRow("Teacher", teacher_name)) >>,
                << Current(RegularRow("Room", "101")) >>)

InfoEntry ==
    MkGridEntry(PlainTexts("08:00"),
                << Current(RegularRow("Info", "Assembly")) >>, << >>, << >>)

BrokenEntry == MkGridEntry(PlainTexts("08:00"), << >>, << >>, << >>)

PolledEntries ==
    {LessonEntry("Smith", "08:00"), LessonEntry("Jones", "08:00"),
     LessonEntry("Smith", "09:45"), InfoEntry, BrokenEntry}

MaxEntries == 2

PolledDays ==
    UNION {{[grid_entries |-> e] : e \in [1..n -> PolledEntries]} : n \in 0..MaxEntries}

GoodResponse(day) ==
    [sent |-> TRUE, format |-> FORMAT_VERSION, days |-> << day >>, errors |-> << >>]

EmptyDay == [grid_entries |-> << >>]

Responses ==
    {GoodResponse(day) : day \in PolledDays}
    \cup {[GoodResponse(EmptyDay) EXCEPT !.sent = FALSE],
          [GoodResponse(EmptyDay) EXCEPT !.format = FORMAT_VERSION + 1],
          [GoodResponse(EmptyDay) EXCEPT !.errors = << "error" >>],
          [GoodResponse(EmptyDay) EXCEPT !.days = << >>],
          [GoodResponse(EmptyDay) EXCEPT !.days = << EmptyDay, EmptyDay >>]}

\* The local times at which Utc::now() is read: an hour before and an hour
\* from the rollover of get_relevant_date, so that two dates are polled.
PollDays == {1}

PollHours == {17, 18}

Times == [day : PollDays, hour : PollHours]

\* The minutes that pass from one Instant::now() to the next: none or Tick.
Tick == 7

Elapse(age, dt) == IF age + dt > MAX_LOGIN_TIME THEN MAX_LOGIN_TIME ELSE age + dt

\* What the cycle before polled, if it succeeded: its date and its list.
Polled(done_cycle) ==
    IF done_cycle.outcome = "ok" /\ done_cycle.lessons # None
    THEN Some([date |-> done_cycle.date, lessons |-> done_cycle.lessons[1]])
    ELSE None

\* The calls of lesson_modification that the cycle delivered: all but a
\* failing last one; each is [pair, title, new].
SentBy(done_cycle) ==
    LET n == IF done_cycle.failAt > 0
             THEN Len(done_cycle.calls) - 1
             ELSE Len(done_cycle.calls)
    IN  [k \in 1..n |-> [pair  |-> done_cycle.calls[k].pair,
                         title |-> done_cycle.calls[k].title,
                         new   |-> done_cycle.lessons[1][done_cycle.calls[k].pair]]]

\* `while sequential_errors < 5`, then iteration as far as
\* `self.ensure_login_validity()?`.  tracked: whether the record of the new
\* cycle takes sent and failed from the cycle before it.
LoginRecording(tracked) ==
    /\ pc = "loop"
    /\ sequential_errors < MaxSequentialErrors
    /\ \E dt \in {0, Tick} :
       \E login_ok \in IF Elapse(since_login, dt) < MAX_LOGIN_TIME
                       THEN {TRUE} ELSE BOOLEAN :
          LET r == ensure_login_validity(Elapse(since_login, dt),
                                         Elapse(since_session, dt), login_ok)
          IN  /\ since_login' = r.since_login
              /\ since_session' = r.since_session
              /\ IF r.result.ok
                 THEN /\ pc' = "fetch"
                      /\ cycle' = [NoCycle EXCEPT !.relogin = r.relogin,
                                                  !.outcome = "running",
                                                  !.last = Polled(cycle),
                                                  !.sent = IF tracked THEN SentBy(cycle)
                                                           ELSE << >>,
                                                  !.failed = IF tracked THEN cycle.err
                                                             ELSE ""]
                      /\ UNCHANGED sequential_errors
                 ELSE /\ pc' = "loop"
                      /\ cycle' = [NoCycle EXCEPT !.relogin = r.relogin,
                                                  !.outcome = "err",
                                                  !.err = r.result.err,
                                                  !.branch = "login",
                                                  !.errors = << r.result.err >>]
                      /\ sequential_errors' = count_errors(r.result, sequential_errors)
    /\ UNCHANGED << prev_lessons, prev_date, call_vars >>

Login == LoginRecording(FALSE)

LoginTracked == LoginRecording(TRUE)

\* The calls of the sink a cycle makes when none of them fails.
CallsOf(lessons_before, date_before, date, lessons) ==
    compare(lessons_before, date_before, date, lessons, 0).calls

\* What iteration's fetch and projection make of the responses.
Fetches == {fetch_lessons(response) : response \in Responses}

\* The rest of iteration, and `if let Err(e) = app.iteration() { ... }`.
Poll ==
    /\ pc = "fetch"
    /\ \E now \in Times, fetched \in Fetches :
          \E failAt \in 0..(IF fetched.result.ok
                            THEN Len(CallsOf(prev_lessons, prev_date,
                                             get_relevant_date(now),
                                             fetched.result.val))
                            ELSE 0) :
              LET r == iteration(prev_lessons, prev_date, now, fetched, failAt)
              IN  /\ prev_lessons' = r.prev_lessons
                  /\ prev_date' = r.prev_date
                  /\ sequential_errors' = count_errors(r.result, sequential_errors)
                  /\ cycle' = [relogin |-> cycle.relogin,
                               outcome |-> IF r.result.ok THEN "ok" ELSE "err",
                               err     |-> IF r.result.ok THEN "" ELSE r.result.err,
                               branch  |-> r.branch,
                               date    |-> r.date,
                               lessons |-> r.lessons,
                               calls   |-> r.calls,
                               errors  |-> IF r.result.ok THEN << >>
                                           ELSE << r.result.err >>,
                               slept   |-> r.slept,
                               last    |-> None,
                               failAt  |-> failAt,
                               sent    |-> << >>,
                               failed  |-> ""]
    /\ pc' = "loop"
    /\ UNCHANGED << since_login, since_session, call_vars >>

ShutdownSilent ==
    /\ pc = "loop"
    /\ sequential_errors >= MaxSequentialErrors
    /\ pc' = "done"
    /\ UNCHANGED << prev_lessons, prev_date, since_login, since_session,
                    sequential_errors, cycle, call_vars >>

\* After the loop: the last send_error, and main returns.
Shutdown ==
    /\ pc = "loop"
    /\ sequential_errors >= MaxSequentialErrors
    /\ pc' = "done"
    /\ cycle' = [cycle EXCEPT !.errors =
                    @ \o << "App failed too many times in a row; shutting down." >>]
    /\ UNCHANGED << prev_lessons, prev_date, since_login, since_session,
                    sequential_errors, call_vars >>

Init ==
    /\ AppNew
    /\ diff_call = Idle
    /\ row_call = Idle
    /\ entry_call = Idle
    /\ day_call = Idle
    /\ fetch_call = Idle
    /\ text_call = Idle

Next == Login \/ Poll \/ Shutdown

Spec == Init /\ [][Next]_vars

\* main where every cycle fails: the backend, the login or the sink fails in
\* each iteration.  main is one thread that runs until it returns: as long
\* as it can take a step it takes one.
Failing == pc' = "loop" => cycle'.outcome = "err"

FailingNext == (Login /\ Failing) \/ (Poll /\ Failing) \/ Shutdown

SpecFailing == Init /\ [][FailingNext]_vars /\ WF_vars(FailingNext)

\* main with the record of what the cycle before delivered and how it failed.
TrackedNext == LoginTracked \/ Poll \/ Shutdown

SpecTracked == Init /\ [][TrackedNext]_vars

\* main in quiet surroundings: the session does not expire, the sink works,
\* every Day projects, and the lessons polled are at 08:00; the fetch may
\* fail.  And where, after a cycle that failed on the number of lessons, the
\* fetch works, the date polled stays the same and the backend goes on
\* returning a list that is not of the baseline's length.
LengthMismatch == "Previous and current 'day' have a different number of lessons"

Quiet ==
    /\ cycle'.relogin = "none"
    /\ cycle'.branch # "extract"
    /\ cycle'.failAt = 0
    /\ cycle'.lessons # None =>
          \A i \in 1..Len(cycle'.lessons[1]) : cycle'.lessons[1][i].datetime = "08:00"

StillMismatched ==
    (pc = "fetch" /\ cycle.failed = LengthMismatch) =>
        /\ cycle'.lessons # None
        /\ cycle'.date = prev_date
        /\ Len(cycle'.lessons[1]) # Len(prev_lessons[1])

MismatchNext ==
    \/ LoginTracked /\ Quiet
    \/ Poll /\ Quiet /\ StillMismatched
    \/ Shutdown

SpecMismatch == Init /\ [][MismatchNext]_vars /\ WF_vars(MismatchNext)

-----------------------------------------------------------------------------
(* Day-level extraction on every Day of up to MaxEntries entries, and what *)
(* a cycle of the controller does that is answered with that Day: without  *)
(* a baseline, and with a baseline of no or of one lesson (of either       *)
(* teacher) of the same date.                                              *)

Removed(row) == [current |-> None, removed |-> Some(row)]

RemovedTeacherEntry ==
    MkGridEntry(PlainTexts("08:00"),
                << Current(RegularRow("Subject", "Math")) >>,
                << Removed(RegularRow("Teacher", "Smith")) >>,
                << Current(RegularRow("Room", "101")) >>)

RoomlessEntry ==
    MkGridEntry(PlainTexts("09:45"),
                << Current(RegularRow("Subject", "Math")) >>,
                << Current(RegularRow("Teacher", "Smith")) >>,
                << >>)

DayEntries == PolledEntries \cup {RemovedTeacherEntry, RoomlessEntry}

DayBaselines ==
    {None, Some(<< >>),
     Some(extract_all_lessons([grid_entries |-> << LessonEntry("Jones", "08:00") >>]).val),
     Some(extract_all_lessons([grid_entries |-> << LessonEntry("Smith", "08:00") >>]).val)}

DayInit ==
    /\ \E n \in 0..MaxEntries, lessons_before \in DayBaselines :
          \E grid_entries \in [1..n -> DayEntries] :
              day_call = [day |-> [grid_entries |-> grid_entries],
                          lessons_before |-> lessons_before, done |-> FALSE]
    /\ diff_call = Idle
    /\ row_call = Idle
    /\ entry_call = Idle
    /\ fetch_call = Idle
    /\ text_call = Idle
    /\ AppOff

ExtractDay ==
    /\ ~day_call.done
    /\ day_call' =
          [day            |-> day_call.day,
           lessons_before |-> day_call.lessons_before,
           done           |-> TRUE,
           out            |-> extract_all_lessons(day_call.day),
           after          |-> iteration(day_call.lessons_before, 1,
                                        [day |-> 1, hour |-> 17],
                                        fetch_lessons(GoodResponse(day_call.day)), 0)]
    /\ UNCHANGED << diff_call, row_call, entry_call, fetch_call, text_call,
                    app_vars >>

SpecDay == DayInit /\ [][ExtractDay]_vars

-----------------------------------------------------------------------------
(* The fetch of one cycle: Utc::now() at any hour of two days, in a zone   *)
(* behind, at or ahead of UTC, and a backend that answers with up to       *)
(* MaxDays Days, with or without errors, or not at all.                    *)

MaxDays == 2

FetchInstants == [day : {1, 2}, hour : 0..23]

FetchOffsets == {-5, 0, 2}

FetchDays == {EmptyDay, [grid_entries |-> << LessonEntry("Smith", "08:00") >>]}

FetchResponses ==
    UNION {[sent : BOOLEAN, format : {FORMAT_VERSION, FORMAT_VERSION + 1},
            days : [1..n -> FetchDays], errors : {<< >>, << "error" >>}]
           : n \in 0..MaxDays}

FetchInit ==
    /\ \E utc \in FetchInstants, timezone \in FetchOffsets,
          response \in FetchResponses, lessons_before \in {None, Some(<< >>)} :
              fetch_call = [utc |-> utc, timezone |-> timezone, response |-> response,
                            lessons_before |-> lessons_before, done |-> FALSE]
    /\ diff_call = Idle
    /\ row_call = Idle
    /\ entry_call = Idle
    /\ day_call = Idle
    /\ text_call = Idle
    /\ AppOff

\* iteration from `let now = Utc::now()` on, with no baseline or an empty
\* one of the date polled.
FetchDay ==
    /\ ~fetch_call.done
    /\ LET now  == with_timezone(fetch_call.utc, fetch_call.timezone)
           date == get_relevant_date(now)
       IN  fetch_call' =
              [utc            |-> fetch_call.utc,
               timezone       |-> fetch_call.timezone,
               response       |-> fetch_call.response,
               lessons_before |-> fetch_call.lessons_before,
               done           |-> TRUE,
               date           |-> date,
               query          |-> fetch_single_entry_query(date),
               out            |-> fetch_single_entry(fetch_call.response),
               after          |-> iteration(fetch_call.lessons_before, date, now,
                                            fetch_lessons(fetch_call.response), 0)]
    /\ UNCHANGED << diff_call, row_call, entry_call, day_call, text_call, app_vars >>

SpecFetch == FetchInit /\ [][FetchDay]_vars

-----------------------------------------------------------------------------
(* Normalisation of the free texts.  One of the four free texts of a       *)
(* lesson entry is any string of up to MaxLen characters (blank, newline   *)
(* or a letter), the other three are fixed; a second entry has the same    *)
(* texts with whitespace put before and after each.                        *)

MaxLen == 3

Chars == {" ", "\n", "a"}

Strings == UNION {[1..n -> Chars] : n \in 0..MaxLen}

Paddings == {<< >>, << " " >>, << "\n", " " >>}

FreeTexts == {"lesson_info", "lesson_text", "substitution_text", "notes_all"}

\* The texts of an entry whose free text `field` is `string`.
TextsWith(field, string) ==
    [status            |-> "Regular",
     start             |-> "08:00",
     lesson_info       |-> IF field = "lesson_info" THEN string ELSE << "i" >>,
     lesson_text       |-> IF field = "lesson_text" THEN string ELSE << "t", " ", "t" >>,
     substitution_text |-> IF field = "substitution_text" THEN string ELSE << >>,
     notes_all         |-> IF field = "notes_all" THEN string ELSE << "n" >>,
     texts             |-> << [text_type |-> "LessonInfo", text |-> "bring book"] >>]

Padded(t, left, right) ==
    [t EXCEPT !.lesson_info       = left \o @ \o right,
              !.lesson_text       = left \o @ \o right,
              !.substitution_text = left \o @ \o right,
              !.notes_all         = left \o @ \o right]

TextEntry(t) ==
    MkGridEntry(t,
                << Current(RegularRow("Subject", "Math")) >>,
                << Current(RegularRow("Teacher", "Smith")) >>,
                << Current(RegularRow("Room", "101")) >>)

TextInit ==
    /\ \E field \in FreeTexts, string \in Strings, left \in Paddings, right \in Paddings :
          text_call = [lesson |-> TextEntry(TextsWith(field, string)),
                       padded |-> TextEntry(Padded(TextsWith(field, string), left, right)),
                       done   |-> FALSE]
    /\ diff_call = Idle
    /\ row_call = Idle
    /\ entry_call = Idle
    /\ day_call = Idle
    /\ fetch_call = Idle
    /\ AppOff

\* Both entries are projected; the first is the old and the second the new
\* lesson of a diff.
NormalizeTexts ==
    /\ ~text_call.done
    /\ LET out        == extract_lesson_info(text_call.lesson)
           padded_out == extract_lesson_info(text_call.padded)
       IN  text_call' = [lesson     |-> text_call.lesson,
                         padded     |-> text_call.padded,
                         done       |-> TRUE,
                         out        |-> out,
                         padded_out |-> padded_out,
                         diff       |-> send_potential_diffs(0, out.val[1],
                                                             padded_out.val[1])]
    /\ UNCHANGED << diff_call, row_call, entry_call, day_call, fetch_call, app_vars >>

SpecText == TextInit /\ [][NormalizeTexts]_vars

-----------------------------------------------------------------------------
\* C1: for every LessonInfo x, send_potential_diffs(x, x) returns Ok(false)
\* and hands nothing to the sink.
C1_DiffOfEqualIsSilent ==
    (diff_call.done /\ diff_call.old = diff_call.new) =>
        /\ diff_call.out.result = Ok(FALSE)
        /\ diff_call.out.calls = << >>

C1_Witness ==
    /\ diff_call.done
    /\ diff_call.old = diff_call.new
    /\ diff_call.old.teacher = "Jones"
    /\ diff_call.old.status = "Cancelled"
    /\ diff_call.out.result = Ok(FALSE)

\* C2: when old and new differ only in status and new.status is Cancelled,
\* the diff hands exactly one notification to the sink, "Lesson Cancellation",
\* and none of another kind.
DiffersOnlyInStatus(old, new) ==
    /\ old.status # new.status
    /\ [old EXCEPT !.status = new.status] = new

C2_CancelledOnlyCancellation ==
    (/\ diff_call.done
     /\ DiffersOnlyInStatus(diff_call.old, diff_call.new)
     /\ diff_call.new.status = "Cancelled") =>
        diff_call.out.calls = << "Lesson Cancellation" >>

C2_Witness ==
    /\ diff_call.done
    /\ DiffersOnlyInStatus(diff_call.old, diff_call.new)
    /\ diff_call.old.status = "Regular"
    /\ diff_call.new.status = "Cancelled"
    /\ diff_call.out.calls = << "Lesson Cancellation" >>
    /\ diff_call.out.result = Ok(TRUE)

-----------------------------------------------------------------------------
\* C7: for every expected RowType and for the strict and the non-strict
\* accessor alike, a position of zero slots or of two or more slots fails,
\* whatever its slots hold.
C7_NotOneSlotFails ==
    (row_call.done /\ Len(row_call.position) # 1) => ~row_call.out.ok

C7_Witness ==
    /\ row_call.done
    /\ Len(row_call.position) >= 2
    /\ row_call.position[1].current # None
    /\ row_call.position[1].current[1].row_type = row_call.expected_type
    /\ row_call.position[1].removed = None
    /\ ~row_call.strict
    /\ row_call.out = Err("Row has n elements (expected exactly one)")

-----------------------------------------------------------------------------
\* C8 as written: for a position of exactly one slot with only `removed`
\* set, the strict accessor fails with "Row was removed" and the non-strict
\* accessor returns the removed Row with is_removed = TRUE.
OnlyRemoved(position) ==
    /\ Len(position) = 1
    /\ position[1].current = None
    /\ position[1].removed # None

C8_Original ==
    (row_call.done /\ OnlyRemoved(row_call.position)) =>
        IF row_call.strict
        THEN row_call.out = Err("Row was removed")
        ELSE row_call.out = Ok([row |-> row_call.position[1].removed[1],
                                is_removed |-> TRUE])

\* C8 as amended: the same, for a removed Row of the accessor's expected
\* RowType; for a removed Row of another type both accessors fail with
\* "Expected row type".
C8_RemovedOnlySlot ==
    (row_call.done /\ OnlyRemoved(row_call.position)) =>
        LET removed == row_call.position[1].removed[1]
        IN  IF removed.row_type # row_call.expected_type
            THEN row_call.out = Err("Expected row type")
            ELSE IF row_call.strict
                 THEN row_call.out = Err("Row was removed")
                 ELSE row_call.out = Ok([row |-> removed, is_removed |-> TRUE])

C8_Witness ==
    /\ row_call.done
    /\ OnlyRemoved(row_call.position)
    /\ row_call.position[1].removed[1].row_type = "Teacher"
    /\ row_call.expected_type = "Teacher"
    /\ ~row_call.strict
    /\ row_call.out.ok
    /\ row_call.out.val.is_removed

-----------------------------------------------------------------------------
\* C9: for every GridEntry whose position1 resolves to a Row of RowType
\* Info, held as current or as removed, extract_lesson_info returns Ok(None),
\* whatever the other fields hold.
ResolvesToInfo(position) ==
    /\ Len(position) = 1
    /\ \/ /\ position[1].current # None
          /\ position[1].current[1].row_type = "Info"
       \/ /\ position[1].current = None
          /\ position[1].removed # None
          /\ position[1].removed[1].row_type = "Info"

C9_InfoEntryYieldsNone ==
    (entry_call.done /\ ResolvesToInfo(entry_call.lesson.position1)) =>
        entry_call.out = Ok(None)


-----------------------------------------------------------------------------
(* The cases of a Poll step that the claims about the controller speak of:  *)
(* unprimed, the state before the cycle; primed, the state after it.       *)

PollStep == pc = "fetch" /\ pc' = "loop"

\* The cycle fetched and projected a list while a baseline was held.
FetchedWithBaseline ==
    PollStep /\ prev_lessons # None /\ cycle'.lessons # None

SameDateStep == FetchedWithBaseline /\ cycle'.date = prev_date

\* C3 as written: in a same-date cycle whose new list has the length of the
\* baseline and differs from it only in the teacher name of one lesson,
\* exactly one notification is sent, "Teacher Changed", and afterwards the
\* controller holds no baseline.
OneTeacherDiffers(old_lessons, new_lessons) ==
    /\ Len(old_lessons) = Len(new_lessons)
    /\ \E i \in 1..Len(old_lessons) :
          /\ old_lessons[i].teacher # new_lessons[i].teacher
          /\ [old_lessons EXCEPT ![i].teacher = new_lessons[i].teacher] = new_lessons

TeacherChangedOnce(calls) ==
    Len(calls) = 1 /\ calls[1].title = "Teacher Changed"

C3_Original ==
    [][(SameDateStep /\ OneTeacherDiffers(prev_lessons[1], cycle'.lessons[1])) =>
          /\ TeacherChangedOnce(cycle'.calls)
          /\ prev_lessons' = None]_vars

\* C3 as amended: exactly one notification is handed to the sink, "Teacher
\* Changed", for the lesson that differs; if it is delivered the cycle
\* succeeds and the controller holds no baseline afterwards; if its delivery
\* fails the cycle fails and the baseline is kept.
C3_TeacherChange ==
    [][(SameDateStep /\ OneTeacherDiffers(prev_lessons[1], cycle'.lessons[1])) =>
          /\ TeacherChangedOnce(cycle'.calls)
          /\ prev_lessons[1][cycle'.calls[1].pair].teacher
                # cycle'.lessons[1][cycle'.calls[1].pair].teacher
          /\ IF cycle'.outcome = "ok"
             THEN prev_lessons' = None
             ELSE /\ cycle'.err = "sending lesson modification info"
                  /\ prev_lessons' = prev_lessons]_vars

C3_Witness ==
    /\ pc = "loop"
    /\ cycle.branch = "compare"
    /\ cycle.outcome = "ok"
    /\ cycle.lessons # None
    /\ Len(cycle.lessons[1]) = 2
    /\ cycle.calls = << [pair |-> 2, title |-> "Teacher Changed"] >>
    /\ cycle.lessons[1][2].teacher = "Jones"
    /\ prev_lessons = None

-----------------------------------------------------------------------------
\* C4 as written: when a baseline for date D is held and a cycle fetches
\* date D+1, that cycle adopts the fetched list as the baseline with
\* prev_date = D+1 and sends no notification.
C4_Original ==
    [][(FetchedWithBaseline /\ cycle'.date = prev_date + 1) =>
          /\ prev_lessons' = cycle'.lessons
          /\ prev_date' = cycle'.date
          /\ cycle'.calls = << >>]_vars

\* C4 as amended: that cycle discards the baseline and adopts none: it
\* succeeds, leaves the controller without a baseline and prev_date at D,
\* and sends no notification, whatever the two lists hold.
C4_AnotherDayDiscards ==
    [][(FetchedWithBaseline /\ cycle'.date = prev_date + 1) =>
          /\ cycle'.outcome = "ok"
          /\ prev_lessons' = None
          /\ prev_date' = prev_date
          /\ cycle'.calls = << >>]_vars

C4_Witness ==
    /\ pc = "loop"
    /\ cycle.branch = "another day"
    /\ cycle.outcome = "ok"
    /\ cycle.date = prev_date + 1
    /\ cycle.lessons # None
    /\ cycle.lessons[1] # << >>
    /\ prev_lessons = None

-----------------------------------------------------------------------------
\* C5: in a same-date cycle whose new list has another length than the
\* baseline, the cycle fails, the sink is not called, prev_lessons and
\* prev_date stay as they were and sequential_errors grows by one.
C5_LengthMismatchFails ==
    [][(SameDateStep /\ Len(prev_lessons[1]) # Len(cycle'.lessons[1])) =>
          /\ cycle'.outcome = "err"
          /\ cycle'.calls = << >>
          /\ prev_lessons' = prev_lessons
          /\ prev_date' = prev_date
          /\ sequential_errors' = sequential_errors + 1]_vars

C5_Witness ==
    /\ pc = "loop"
    /\ cycle.outcome = "err"
    /\ cycle.err = "Previous and current 'day' have a different number of lessons"
    /\ cycle.lessons # None
    /\ prev_lessons # None
    /\ Len(prev_lessons[1]) = 1
    /\ Len(cycle.lessons[1]) = 2
    /\ cycle.date = prev_date
    /\ cycle.calls = << >>

-----------------------------------------------------------------------------
\* C6: main shuts down exactly when 5 cycles in a row have failed: a cycle
\* that succeeds sets the counter to 0 and one that fails adds one to it;
\* main has returned only with the counter at 5; and with the counter at 5
\* the next step is the shutdown, not another cycle.
CycleEnds == pc' = "loop" /\ (pc = "fetch" \/ (pc = "loop" /\ vars' # vars))

C6_ShutdownAfterFive ==
    [][/\ (CycleEnds /\ cycle'.outcome = "ok") => sequential_errors' = 0
       /\ (CycleEnds /\ cycle'.outcome = "err") =>
              sequential_errors' = sequential_errors + 1
       /\ CycleEnds => cycle'.outcome \in {"ok", "err"}
       /\ pc' = "done" => (pc = "loop" /\ sequential_errors' = 5
                           /\ cycle.outcome = "err")
       /\ (pc = "loop" /\ sequential_errors = 5) => pc' = "done"]_vars

C6_Witness ==
    /\ pc = "done"
    /\ sequential_errors = 5
    /\ cycle.outcome = "err"

-----------------------------------------------------------------------------
\* C10: a cycle that starts without a baseline and succeeds adopts the list
\* it projected as the baseline, records the date it polled as prev_date and
\* does not call the sink; main starts without a baseline.
C10_AdoptWithoutBaseline ==
    /\ Init => prev_lessons = None
    /\ [][(PollStep /\ prev_lessons = None /\ cycle'.outcome = "ok") =>
             /\ cycle'.lessons # None
             /\ prev_lessons' = cycle'.lessons
             /\ prev_date' = cycle'.date
             /\ cycle'.date \in {get_relevant_date(now) : now \in Times}
             /\ cycle'.calls = << >>]_vars

C10_Witness ==
    /\ pc = "loop"
    /\ cycle.branch = "adopt"
    /\ cycle.outcome = "ok"
    /\ prev_lessons # None
    /\ prev_lessons = cycle.lessons
    /\ Len(prev_lessons[1]) = 2
    /\ prev_date = cycle.date
    /\ prev_date # DefaultDate
    /\ cycle.calls = << >>

-----------------------------------------------------------------------------
\* C11: after a same-date comparison cycle that succeeds, the controller
\* holds no baseline if and only if some pair (baseline[i], new[i]) is
\* unequal; if all pairs are equal, prev_lessons and prev_date are as they
\* were and the sink was not called.
SomePairDiffers(old_lessons, new_lessons) ==
    \E i \in 1..Len(old_lessons) : old_lessons[i] # new_lessons[i]

ComparedOk ==
    /\ SameDateStep
    /\ Len(prev_lessons[1]) = Len(cycle'.lessons[1])
    /\ cycle'.outcome = "ok"

C11_InvalidatedIffChanged ==
    [][ComparedOk =>
          /\ prev_lessons' = None <=> SomePairDiffers(prev_lessons[1], cycle'.lessons[1])
          /\ ~SomePairDiffers(prev_lessons[1], cycle'.lessons[1]) =>
                /\ prev_lessons' = prev_lessons
                /\ prev_date' = prev_date
                /\ cycle'.calls = << >>]_vars

C11_Witness ==
    /\ pc = "loop"
    /\ cycle.branch = "compare"
    /\ cycle.outcome = "ok"
    /\ cycle.lessons # None
    /\ Len(cycle.lessons[1]) = 2
    /\ cycle.calls # << >>
    /\ cycle.calls[1].pair = 1
    /\ prev_lessons = None
    /\ prev_date = cycle.date

-----------------------------------------------------------------------------
\* C12: for old # new the diff returns changed = true whenever it returns,
\* also when none of the five checks fires (only datetime differs, or status
\* differs with a new status outside Cancelled, Removed, Changed); then the
\* sink is not called, and a same-date cycle comparing the two still leaves
\* the controller without a baseline.
NoCheckFires(old, new) ==
    /\ old.status = new.status \/ new.status \notin {"Cancelled", "Removed", "Changed"}
    /\ old.subject = new.subject /\ old.subject_status = new.subject_status
    /\ old.teacher = new.teacher /\ old.teacher_status = new.teacher_status
    /\ old.room = new.room /\ old.room_status = new.room_status
    /\ old.lesson_info = new.lesson_info /\ old.lesson_text = new.lesson_text
    /\ old.substitution_text = new.substitution_text
    /\ old.notes = new.notes /\ old.texts = new.texts

-----------------------------------------------------------------------------
\* C13: the status check fires only when old.status # new.status, and then
\* a new status of Cancelled or Removed gives "Lesson Cancellation", Changed
\* gives "Lesson Change" and every other new status gives no status call; a
\* pair of equal status gives neither.
IsStatusTitle(title) == title \in {"Lesson Cancellation", "Lesson Change"}

StatusCalls(calls) == SelectSeq(calls, IsStatusTitle)

C13_StatusCheck ==
    diff_call.done =>
        StatusCalls(diff_call.out.calls) =
            IF diff_call.old.status = diff_call.new.status
            THEN << >>
            ELSE CASE diff_call.new.status \in {"Cancelled", "Removed"} ->
                        << "Lesson Cancellation" >>
                   [] diff_call.new.status = "Changed" -> << "Lesson Change" >>
                   [] diff_call.new.status \in {"NoData", "NotAllowed", "Regular", "Added"} ->
                        << >>

C13_Witness ==
    /\ diff_call.done
    /\ diff_call.old.status = "Cancelled"
    /\ diff_call.new.status = "Changed"
    /\ diff_call.new.teacher # diff_call.old.teacher
    /\ diff_call.out.calls = << "Lesson Change", "Teacher Changed" >>

-----------------------------------------------------------------------------
\* C14 as written: for old # new the diff emits "Subject Changed" iff subject
\* or subject_status differs, "Teacher Changed" iff teacher or teacher_status
\* differs, "Room Changed" iff room or room_status differs, "Notes Changed"
\* iff one of lesson_info, lesson_text, substitution_text, notes, texts
\* differs; each at most once, at most five calls in all.
Emitted(title) ==
    \E k \in 1..Len(diff_call.out.calls) : diff_call.out.calls[k] = title

SubjectDiffers(old, new) ==
    old.subject # new.subject \/ old.subject_status # new.subject_status

TeacherDiffers(old, new) ==
    old.teacher # new.teacher \/ old.teacher_status # new.teacher_status

RoomDiffers(old, new) ==
    old.room # new.room \/ old.room_status # new.room_status

NotesDiffer(old, new) ==
    \/ old.lesson_info # new.lesson_info
    \/ old.lesson_text # new.lesson_text
    \/ old.substitution_text # new.substitution_text
    \/ old.notes # new.notes
    \/ old.texts # new.texts

EachAtMostOnce(calls) ==
    /\ Len(calls) <= 5
    /\ \A j, k \in 1..Len(calls) : calls[j] = calls[k] => j = k

C14_Original ==
    (diff_call.done /\ diff_call.old # diff_call.new) =>
        /\ Emitted("Subject Changed") <=> SubjectDiffers(diff_call.old, diff_call.new)
        /\ Emitted("Teacher Changed") <=> TeacherDiffers(diff_call.old, diff_call.new)
        /\ Emitted("Room Changed") <=> RoomDiffers(diff_call.old, diff_call.new)
        /\ Emitted("Notes Changed") <=> NotesDiffer(diff_call.old, diff_call.new)
        /\ EachAtMostOnce(diff_call.out.calls)

\* C14 as amended: a kind is emitted only if its fields differ, each at most
\* once and at most five calls in all; if no delivery fails, a kind is
\* emitted whenever its fields differ; a delivery that fails ends the diff
\* with that call as its last, and the checks after it are not made.
C14_ChecksUntilFailure ==
    (diff_call.done /\ diff_call.old # diff_call.new) =>
        /\ Emitted("Subject Changed") => SubjectDiffers(diff_call.old, diff_call.new)
        /\ Emitted("Teacher Changed") => TeacherDiffers(diff_call.old, diff_call.new)
        /\ Emitted("Room Changed") => RoomDiffers(diff_call.old, diff_call.new)
        /\ Emitted("Notes Changed") => NotesDiffer(diff_call.old, diff_call.new)
        /\ EachAtMostOnce(diff_call.out.calls)
        /\ IF diff_call.out.result.ok
           THEN /\ SubjectDiffers(diff_call.old, diff_call.new) => Emitted("Subject Changed")
                /\ TeacherDiffers(diff_call.old, diff_call.new) => Emitted("Teacher Changed")
                /\ RoomDiffers(diff_call.old, diff_call.new) => Emitted("Room Changed")
                /\ NotesDiffer(diff_call.old, diff_call.new) => Emitted("Notes Changed")
           ELSE /\ diff_call.failAt = Len(diff_call.out.calls)
                /\ diff_call.failAt >= 1

C14_Witness ==
    /\ diff_call.done
    /\ diff_call.out.result.ok
    /\ diff_call.old.status = diff_call.new.status
    /\ diff_call.old.texts # diff_call.new.texts
    /\ diff_call.old.notes = diff_call.new.notes
    /\ diff_call.out.calls =
          << "Subject Changed", "Teacher Changed", "Room Changed", "Notes Changed" >>

-----------------------------------------------------------------------------
\* C15: whenever a tracked field (status, subject, teacher, room or an
\* annotation) of a lesson differs between the lists of two successive
\* successful polls of the same date, a notification for that lesson and
\* that change is handed to the sink in the second of them.
Notified(calls, i, title) ==
    \E k \in 1..Len(calls) : calls[k] = [pair |-> i, title |-> title]

ChangeNotified(calls, i, old, new) ==
    /\ old.status # new.status =>
          Notified(calls, i, "Lesson Cancellation") \/ Notified(calls, i, "Lesson Change")
    /\ SubjectDiffers(old, new) => Notified(calls, i, "Subject Changed")
    /\ TeacherDiffers(old, new) => Notified(calls, i, "Teacher Changed")
    /\ RoomDiffers(old, new) => Notified(calls, i, "Room Changed")
    /\ NotesDiffer(old, new) => Notified(calls, i, "Notes Changed")

SuccessivePolls ==
    /\ PollStep
    /\ cycle.last # None
    /\ cycle'.outcome = "ok"
    /\ cycle'.lessons # None
    /\ cycle'.date = cycle.last[1].date
    /\ Len(cycle'.lessons[1]) = Len(cycle.last[1].lessons)

C15_ChangesNotified ==
    [][SuccessivePolls =>
          \A i \in 1..Len(cycle'.lessons[1]) :
              ChangeNotified(cycle'.calls, i,
                             cycle.last[1].lessons[i], cycle'.lessons[1][i])]_vars

-----------------------------------------------------------------------------
\* C16: before every fetch the age of the session is checked and, when the
\* maximum login lifetime has elapsed, the controller logs in again before
\* it fetches, so that no fetch starts with a session of MAX_LOGIN_TIME or
\* older; and a re-login, successful or failed, changes neither prev_lessons
\* nor prev_date.
LoginStep == pc = "loop" /\ pc' \in {"loop", "fetch"} /\ vars' # vars

C16_ReloginBeforeFetch ==
    [][LoginStep =>
          /\ pc' = "fetch" => since_session' < MAX_LOGIN_TIME
          /\ prev_lessons' = prev_lessons
          /\ prev_date' = prev_date]_vars

-----------------------------------------------------------------------------
\* C17 as written: a delivery failure of a lesson notification does not fail
\* the poll cycle, does not add to sequential_errors and does not keep the
\* remaining lesson pairs from being diffed: the calls of the cycle are those
\* it makes when no delivery fails.
ComparedStep ==
    SameDateStep /\ Len(prev_lessons[1]) = Len(cycle'.lessons[1])

C17_Original ==
    [][ComparedStep =>
          /\ cycle'.outcome = "ok"
          /\ sequential_errors' = 0
          /\ cycle'.calls = CallsOf(prev_lessons, prev_date, cycle'.date, cycle'.lessons[1])]_vars

\* C17 as amended: a delivery failure of a lesson notification fails the
\* poll cycle with the sink's error and adds one to sequential_errors; the
\* failing call is the last of the cycle, so the checks and the lesson pairs
\* after it are not diffed; the call is not repeated within the cycle, and
\* prev_lessons and prev_date stay as they were.  Without a failure the
\* cycle succeeds and makes all its calls.
C17_DeliveryFailureFailsCycle ==
    [][ComparedStep =>
          LET all == CallsOf(prev_lessons, prev_date, cycle'.date, cycle'.lessons[1])
          IN  IF cycle'.failAt = 0
              THEN
                 /\ cycle'.outcome = "ok"
                 /\ cycle'.calls = all
                 /\ sequential_errors' = 0
              ELSE
                 /\ cycle'.outcome = "err"
                 /\ Len(cycle'.calls) = cycle'.failAt
                 /\ cycle'.err = "sending lesson modification info"
                 /\ cycle'.errors = << cycle'.err >>
                 /\ sequential_errors' = sequential_errors + 1
                 /\ cycle'.calls # << >>
                 /\ Len(cycle'.calls) <= Len(all)
                 /\ cycle'.calls = SubSeq(all, 1, Len(cycle'.calls))
                 /\ prev_lessons' = prev_lessons
                 /\ prev_date' = prev_date
                 /\ ~cycle'.slept]_vars

C17_Witness ==
    /\ pc = "loop"
    /\ cycle.branch = "compare"
    /\ cycle.outcome = "err"
    /\ cycle.err = "sending lesson modification info"
    /\ cycle.calls = << [pair |-> 1, title |-> "Teacher Changed"] >>
    /\ prev_lessons # None
    /\ Len(prev_lessons[1]) = 2
    /\ prev_lessons[1][2].teacher # cycle.lessons[1][2].teacher
    /\ sequential_errors = 1

-----------------------------------------------------------------------------
\* C18 as written: after a cycle that failed on the format version the
\* controller does not start another fetch.
FormatFailed == pc = "loop" /\ cycle.err = "Format Version mismatch"

C18_Original == [][FormatFailed => pc' # "fetch"]_vars

\* C18 as amended: a cycle that fails on the format version is a failed
\* cycle like any other: it is reported with send_error, adds one to
\* sequential_errors and leaves prev_lessons and prev_date alone; after it
\* main starts the next cycle, unless it was the fifth failure in a row, and
\* then main shuts down.
C18_FormatFailureCounts ==
    /\ [](FormatFailed =>
            IF sequential_errors < MaxSequentialErrors
            THEN ENABLED Login
            ELSE ~ENABLED Login /\ ENABLED Shutdown)
    /\ [][(PollStep /\ cycle'.err = "Format Version mismatch") =>
             /\ cycle'.outcome = "err"
             /\ cycle'.branch = "fetch"
             /\ cycle'.errors = << "Format Version mismatch" >>
             /\ sequential_errors' = sequential_errors + 1
             /\ prev_lessons' = prev_lessons
             /\ prev_date' = prev_date]_vars
    /\ [][(FormatFailed /\ vars' # vars) =>
             IF sequential_errors < MaxSequentialErrors
             THEN pc' \in {"loop", "fetch"}
             ELSE pc' = "done"]_vars

C18_Witness ==
    /\ pc = "loop"
    /\ cycle.err = "Format Version mismatch"
    /\ cycle.branch = "fetch"
    /\ sequential_errors = 3
    /\ prev_lessons # None

-----------------------------------------------------------------------------
\* C19: there is no infinite-retry mode: when every cycle fails, main
\* eventually returns; it returns only with five failures in a row counted,
\* and by then it has sent, after the error of the fifth failed cycle,
\* exactly one shutdown notification; having returned it does nothing more.
ShutdownMessage == "App failed too many times in a row; shutting down."

C19_NoInfiniteRetry ==
    /\ <>(pc = "done")
    /\ [](pc = "done" =>
            /\ sequential_errors = MaxSequentialErrors
            /\ cycle.outcome = "err"
            /\ cycle.errors = << cycle.err, ShutdownMessage >>)
    /\ [][pc = "done" => pc' = "done"]_vars

C19_Witness ==
    /\ pc = "done"
    /\ sequential_errors = MaxSequentialErrors
    /\ cycle.branch = "login"
    /\ cycle.errors = << "Could not log back into Untis", ShutdownMessage >>
    /\ prev_lessons = None

-----------------------------------------------------------------------------
\* C20: if an entry of the fetched Day that is not informational fails to
\* resolve, extract_all_lessons fails as a whole and the cycle fails in the
\* projection: no list, and so no list without the failing entry, becomes
\* the baseline or is diffed against it.
FailsToResolve(entry) ==
    /\ ~info(entry).ok
    /\ ~subject(entry).ok \/ ~teacher_maybe_removed(entry).ok \/ ~room(entry).ok

SomeEntryFails(day) ==
    \E i \in 1..Len(day.grid_entries) : FailsToResolve(day.grid_entries[i])

C20_NoPartialList ==
    (day_call.done /\ SomeEntryFails(day_call.day)) =>
        /\ ~day_call.out.ok
        /\ ~day_call.after.result.ok
        /\ day_call.after.result.err = day_call.out.err
        /\ day_call.after.branch = "extract"
        /\ day_call.after.lessons = None
        /\ day_call.after.prev_lessons = day_call.lessons_before
        /\ day_call.after.calls = << >>

C20_Witness ==
    /\ day_call.done
    /\ day_call.day.grid_entries = << LessonEntry("Smith", "08:00"), RoomlessEntry >>
    /\ day_call.lessons_before # None
    /\ Len(day_call.lessons_before[1]) = 1
    /\ day_call.out = Err("Row is empty")
    /\ day_call.after.prev_lessons = day_call.lessons_before
    /\ day_call.after.calls = << >>

-----------------------------------------------------------------------------
\* C21: fetch_single_entry asks for the range from date to date and succeeds,
\* with the Day returned, exactly when the backend answers with one Day and
\* no errors; with no Day, with two or more Days or with errors the fetch
\* fails and the cycle fails with it, at the fetch.
Answered(response) == response.sent /\ response.format = FORMAT_VERSION

C21_ExactlyOneDay ==
    fetch_call.done =>
        /\ fetch_call.query.start = fetch_call.date
        /\ fetch_call.query.end = fetch_call.date
        /\ fetch_call.out.ok =>
              /\ Len(fetch_call.response.days) = 1
              /\ fetch_call.response.errors = << >>
              /\ fetch_call.out.val = fetch_call.response.days[1]
        /\ (Answered(fetch_call.response) /\ Len(fetch_call.response.days) = 1
               /\ fetch_call.response.errors = << >>) => fetch_call.out.ok
        /\ ~fetch_call.out.ok =>
              /\ fetch_call.after.result = fetch_call.out
              /\ fetch_call.after.branch = "fetch"
              /\ fetch_call.after.prev_lessons = fetch_call.lessons_before

C21_Witness ==
    /\ fetch_call.done
    /\ Answered(fetch_call.response)
    /\ Len(fetch_call.response.days) = 2
    /\ fetch_call.response.errors = << >>
    /\ fetch_call.out = Err("API returned n days instead of just one")
    /\ fetch_call.after.result = fetch_call.out

-----------------------------------------------------------------------------
\* C22: the date polled is the calendar date of the instant in the
\* configured timezone when the local hour is 0..17, and the date after it
\* when the local hour is 18..23.
LocalHours(call) == call.utc.day * 24 + call.utc.hour + call.timezone

-----------------------------------------------------------------------------
\* C23: for an entry that is not informational, a teacher slot that holds
\* only a removed Teacher row projects, beside a current Subject and a
\* current Room, to a lesson with the removed row's long name and status;
\* a subject slot or a room slot that holds only a removed row makes the
\* projection fail.
HoldsCurrent(position, row_type) ==
    /\ Len(position) = 1
    /\ position[1].current # None
    /\ position[1].current[1].row_type = row_type

OnlyRemovedTeacher(lesson) ==
    /\ HoldsCurrent(lesson.position1, "Subject")
    /\ HoldsCurrent(lesson.position3, "Room")
    /\ OnlyRemoved(lesson.position2)
    /\ lesson.position2[1].removed[1].row_type = "Teacher"

C23_TeacherTolerated ==
    entry_call.done =>
        LET lesson == entry_call.lesson
        IN  /\ OnlyRemovedTeacher(lesson) =>
                  /\ entry_call.out.ok
                  /\ entry_call.out.val # None
                  /\ entry_call.out.val[1].teacher =
                        lesson.position2[1].removed[1].long_name
                  /\ entry_call.out.val[1].teacher_status =
                        lesson.position2[1].removed[1].status
                  /\ entry_call.out.val[1].subject =
                        lesson.position1[1].current[1].long_name
                  /\ entry_call.out.val[1].room =
                        lesson.position3[1].current[1].long_name
            /\ (~ResolvesToInfo(lesson.position1)
                  /\ (OnlyRemoved(lesson.position1) \/ OnlyRemoved(lesson.position3))) =>
                  ~entry_call.out.ok
            /\ (HoldsCurrent(lesson.position1, "Subject")
                  /\ HoldsCurrent(lesson.position2, "Teacher")
                  /\ OnlyRemoved(lesson.position3)
                  /\ lesson.position3[1].removed[1].row_type = "Room") =>
                  entry_call.out = Err("Row was removed")

C23_Witness ==
    /\ entry_call.done
    /\ OnlyRemovedTeacher(entry_call.lesson)
    /\ entry_call.lesson.position2[1].removed[1].status = "Changed"
    /\ entry_call.out.ok
    /\ entry_call.out.val[1].teacher = "Smith"
    /\ entry_call.out.val[1].teacher_status = "Changed"

-----------------------------------------------------------------------------
\* C24: in the one slot of a position extract_row_with_status returns
\* `current` with is_removed = FALSE whenever `current` is present, also
\* beside a `removed`; `removed` with is_removed = TRUE only when `current`
\* is absent; and it fails when both are absent.  The non-strict accessor
\* returns that pair when the row is of the expected type.
C24_CurrentPreferred ==
    (row_call.done /\ Len(row_call.position) = 1) =>
        LET wrapper == row_call.position[1]
        IN  /\ row_call.slot # None
            /\ wrapper.current # None =>
                  row_call.slot[1] = Ok([row |-> wrapper.current[1],
                                         is_removed |-> FALSE])
            /\ (wrapper.current = None /\ wrapper.removed # None) =>
                  row_call.slot[1] = Ok([row |-> wrapper.removed[1],
                                         is_removed |-> TRUE])
            /\ (wrapper.current = None /\ wrapper.removed = None) =>
                  /\ row_call.slot[1] =
                        Err("RowWrapper has neither current nor removed Row")
                  /\ row_call.out = row_call.slot[1]
            /\ (row_call.slot[1].ok /\ ~row_call.strict
                  /\ row_call.slot[1].val.row.row_type = row_call.expected_type) =>
                  row_call.out = row_call.slot[1]

C24_Witness ==
    /\ row_call.done
    /\ Len(row_call.position) = 1
    /\ row_call.position[1].current # None
    /\ row_call.position[1].removed # None
    /\ row_call.position[1].removed[1] # row_call.position[1].current[1]
    /\ ~row_call.strict
    /\ row_call.out = Ok([row |-> row_call.position[1].current[1],
                          is_removed |-> FALSE])

-----------------------------------------------------------------------------
\* C25: for the strict and for the non-strict accessors, a Row resolved from
\* `current` or from `removed` whose row_type is not the expected one fails
\* with "Expected row type"; a Row is returned only if its row_type is the
\* expected one.
ReturnedRow(call) == IF call.strict THEN call.out.val ELSE call.out.val.row

C25_UnexpectedRowType ==
    row_call.done =>
        /\ (row_call.slot # None /\ row_call.slot[1].ok
              /\ row_call.slot[1].val.row.row_type # row_call.expected_type) =>
              row_call.out = Err("Expected row type")
        /\ row_call.out.ok =>
              /\ ReturnedRow(row_call).row_type = row_call.expected_type
              /\ ReturnedRow(row_call) = row_call.slot[1].val.row

C25_Witness ==
    /\ row_call.done
    /\ OnlyRemoved(row_call.position)
    /\ row_call.position[1].removed[1].row_type = "Room"
    /\ row_call.expected_type = "Teacher"
    /\ row_call.strict
    /\ row_call.out = Err("Expected row type")

-----------------------------------------------------------------------------
\* C26: the calls of one diff come in the order status (Lesson Cancellation
\* or Lesson Change), Subject Changed, Teacher Changed, Room Changed, Notes
\* Changed; and in one cycle every call for pair i comes before every call
\* for pair i + 1.
Rank(title) ==
    CASE title \in {"Lesson Cancellation", "Lesson Change"} -> 1
      [] title = "Subject Changed" -> 2
      [] title = "Teacher Changed" -> 3
      [] title = "Room Changed"    -> 4
      [] title = "Notes Changed"   -> 5

C26_FixedOrder ==
    diff_call.done =>
        /\ \A k, l \in 1..Len(diff_call.out.calls) :
              k < l => Rank(diff_call.out.calls[k]) < Rank(diff_call.out.calls[l])
        /\ \A k, l \in 1..Len(diff_call.both.calls) :
              k < l =>
                 LET first == diff_call.both.calls[k]
                     then  == diff_call.both.calls[l]
                 IN  \/ first.pair < then.pair
                     \/ first.pair = then.pair /\ Rank(first.title) < Rank(then.title)

C26_Witness ==
    /\ diff_call.done
    /\ Len(diff_call.out.calls) = 5
    /\ Len(diff_call.both.calls) = 10
    /\ [k \in 1..10 |-> diff_call.both.calls[k].pair] = << 1, 1, 1, 1, 1, 2, 2, 2, 2, 2 >>
    /\ [k \in 1..5 |-> diff_call.both.calls[k + 5].title] =
          << "Lesson Change", "Subject Changed", "Teacher Changed", "Room Changed",
             "Notes Changed" >>

-----------------------------------------------------------------------------
\* C27: when every entry of the Day that is not informational resolves,
\* extract_all_lessons returns the LessonInfo of each such entry, in the
\* order of the entries, and nothing for the informational entries: as many
\* lessons as there are entries that are not informational.
IsInformational(entry) == info(entry).ok

IsLessonEntry(entry) == ~IsInformational(entry)

C27_OnePerLessonInOrder ==
    (day_call.done /\ ~SomeEntryFails(day_call.day)) =>
        LET lesson_entries == SelectSeq(day_call.day.grid_entries, IsLessonEntry)
        IN  /\ day_call.out.ok
            /\ Len(day_call.out.val) = Len(lesson_entries)
            /\ Len(day_call.out.val) =
                  Cardinality({i \in 1..Len(day_call.day.grid_entries) :
                                  ~IsInformational(day_call.day.grid_entries[i])})
            /\ \A i \in 1..Len(lesson_entries) :
                  extract_lesson_info(lesson_entries[i]) = Ok(Some(day_call.out.val[i]))
            /\ day_call.after.lessons = Some(day_call.out.val)

C27_Witness ==
    /\ day_call.done
    /\ day_call.day.grid_entries =
          << LessonEntry("Jones", "08:00"), LessonEntry("Smith", "09:45") >>
    /\ day_call.out.ok
    /\ [i \in 1..Len(day_call.out.val) |-> day_call.out.val[i].teacher]
          = << "Jones", "Smith" >>

-----------------------------------------------------------------------------
\* C28: every poll cycle is followed by a sleep before the next cycle
\* fetches, whatever the cycle did: adopted a baseline, found another date,
\* compared, or failed.
C28_SleepAfterEveryCycle == [][CycleEnds => cycle'.slept]_vars

-----------------------------------------------------------------------------
\* C29: each of lesson_info, lesson_text, substitution_text and notes is
\* None exactly when its source string is empty or all whitespace, and
\* otherwise the source string without its leading and trailing
\* whitespace; so two entries whose free texts differ only in the
\* whitespace around them project to equal lessons and their diff makes no
\* call.
Inked(string) == {i \in 1..Len(string) : string[i] \notin Whitespace}

First(S) == CHOOSE i \in S : \A j \in S : i <= j

Last(S) == CHOOSE i \in S : \A j \in S : j <= i

Normalized(string, projected) ==
    IF Inked(string) = {}
    THEN projected = None
    ELSE projected = Some(SubSeq(string, First(Inked(string)), Last(Inked(string))))

C29_TextsNormalized ==
    text_call.done =>
        /\ text_call.out.ok /\ text_call.out.val # None
        /\ Normalized(text_call.lesson.lesson_info, text_call.out.val[1].lesson_info)
        /\ Normalized(text_call.lesson.lesson_text, text_call.out.val[1].lesson_text)
        /\ Normalized(text_call.lesson.substitution_text,
                      text_call.out.val[1].substitution_text)
        /\ Normalized(text_call.lesson.notes_all, text_call.out.val[1].notes)
        /\ text_call.padded_out = text_call.out
        /\ text_call.diff = [result |-> Ok(FALSE), calls |-> << >>]

C29_Witness ==
    /\ text_call.done
    /\ text_call.lesson.lesson_text = << " ", "a", "\n" >>
    /\ text_call.padded.lesson_text = << "\n", " ", " ", "a", "\n", " " >>
    /\ text_call.out.val[1].lesson_text = Some(<< "a" >>)
    /\ text_call.padded_out.val[1].substitution_text = None
    /\ text_call.diff.calls = << >>

-----------------------------------------------------------------------------
\* C30: a poll cycle that ends in an error, at the re-login, the fetch, the
\* projection, the length check or the sending of a lesson notification,
\* leaves prev_lessons and prev_date as they were before the cycle.
C30_FailedCycleKeepsBaseline ==
    [][(CycleEnds /\ cycle'.outcome = "err") =>
          /\ prev_lessons' = prev_lessons
          /\ prev_date' = prev_date
          /\ cycle'.branch \in {"login", "fetch", "extract", "compare"}]_vars

C30_Witness ==
    /\ pc = "loop"
    /\ cycle.outcome = "err"
    /\ cycle.branch = "compare"
    /\ cycle.failAt = 1
    /\ cycle.calls = << [pair |-> 2, title |-> "Teacher Changed"] >>
    /\ prev_lessons # None
    /\ prev_date = cycle.date

-----------------------------------------------------------------------------
\* C31: whenever iteration is about to fetch, untis_client is a session of a
\* successful login less than MAX_LOGIN_TIME ago; and a cycle that follows a
\* failed re-login attempts the login again (and so fails or fetches with a
\* new session) instead of fetching with the old one.
C31_FetchWithFreshSession ==
    /\ pc = "fetch" => since_session < MAX_LOGIN_TIME
    /\ (pc = "fetch" /\ cycle.relogin = "none") => since_login = since_session

-----------------------------------------------------------------------------
\* C32: whenever prev_lessons is Some, prev_date is the date for which that
\* list was fetched: a list becomes the baseline only as the list a cycle
\* fetched, together with the date that cycle polled, and as long as it is
\* the baseline prev_date does not change; so the calls of the sink are
\* made only by a cycle that polled the date of its baseline.
C32_BaselineOfKnownDate ==
    [][/\ (prev_lessons = None /\ prev_lessons' # None) =>
             /\ cycle'.branch = "adopt"
             /\ prev_lessons' = cycle'.lessons
             /\ prev_date' = cycle'.date
       /\ (prev_lessons # None /\ prev_lessons' # None) =>
             /\ prev_lessons' = prev_lessons
             /\ prev_date' = prev_date
       /\ (CycleEnds /\ cycle'.calls # << >>) =>
             /\ prev_lessons # None
             /\ cycle'.date = prev_date
             /\ cycle.last # None => cycle'.date = cycle.last[1].date]_vars

C32_Witness ==
    /\ cycle.branch = "compare"
    /\ cycle.calls # << >>
    /\ cycle.date = 2
    /\ prev_date = 2
    /\ cycle.outcome = "err"
    /\ prev_lessons # None

-----------------------------------------------------------------------------
\* C33: no call that a cycle delivered is delivered again by the cycle after
\* it: the same title for the same pair, that is for the same lesson of the
\* same baseline and the same new lesson; also when a later call of the
\* first cycle failed.
C33_NotifiedAtMostOnce ==
    [][PollStep =>
          \A k \in 1..Len(cycle.sent), l \in 1..Len(SentBy(cycle')) :
              SentBy(cycle')[l] # cycle.sent[k]]_vars

-----------------------------------------------------------------------------
\* C34: after a cycle that failed on the number of lessons, as long as the
\* date polled stays the same and the backend returns a list that is not of
\* the baseline's length, each following cycle fails with the same error,
\* keeps the baseline and adds one to sequential_errors; so main reaches its
\* threshold and returns.
C34_MismatchPersists ==
    /\ [][(PollStep /\ cycle.failed = LengthMismatch) =>
             /\ cycle'.err = LengthMismatch
             /\ prev_lessons' = prev_lessons
             /\ prev_date' = prev_date
             /\ sequential_errors' = sequential_errors + 1]_vars
    /\ (cycle.err = LengthMismatch) ~> (pc = "done" /\ cycle.err = LengthMismatch)

C34_Witness ==
    /\ pc = "done"
    /\ cycle.err = LengthMismatch
    /\ sequential_errors = MaxSequentialErrors
    /\ prev_lessons # None
    /\ Len(prev_lessons[1]) = 1
    /\ Len(cycle.lessons[1]) = 2

-----------------------------------------------------------------------------
\* C35: an entry that holds its Teacher row as `removed` projects to the
\* LessonInfo of the entry that holds the same row as `current`; a cycle
\* whose baseline was projected from the one and whose Day holds the other,
\* for the same date, finds no change: no call of the sink, Ok, and the
\* baseline stays.
TeacherAsCurrent(entry) ==
    [entry EXCEPT !.position2 =
        [i \in 1..Len(@) |->
            IF @[i].current = None /\ @[i].removed # None
            THEN [current |-> @[i].removed, removed |-> None]
            ELSE @[i]]]

DayWithTeachersAsCurrent(day) ==
    [grid_entries |-> [i \in 1..Len(day.grid_entries) |->
                          TeacherAsCurrent(day.grid_entries[i])]]

TeacherHeldAsRemoved ==
    /\ day_call.done
    /\ DayWithTeachersAsCurrent(day_call.day) # day_call.day
    /\ extract_all_lessons(DayWithTeachersAsCurrent(day_call.day)).ok
    /\ day_call.lessons_before =
          Some(extract_all_lessons(DayWithTeachersAsCurrent(day_call.day)).val)

C35_RemovedFlagDiscarded ==
    TeacherHeldAsRemoved =>
        /\ day_call.out = Ok(day_call.lessons_before[1])
        /\ day_call.after.branch = "compare"
        /\ day_call.after.result = Ok(<< >>)
        /\ day_call.after.calls = << >>
        /\ day_call.after.prev_lessons = day_call.lessons_before

C35_Witness ==
    /\ TeacherHeldAsRemoved
    /\ day_call.day.grid_entries = << RemovedTeacherEntry >>
    /\ Len(day_call.lessons_before[1]) = 1
    /\ day_call.lessons_before[1][1].teacher = "Smith"
    /\ day_call.out.val = day_call.lessons_before[1]
    /\ day_call.after.calls = << >>
    /\ day_call.after.slept

====
